---------------------------- MODULE Spec2Model ----------------------------
(* A model of the retrieval subsystem of python_backend: RAGSystem          *)
(* (src/python_backend/rag.py) as it is used by process_document            *)
(* (services/ingest.py) and TeacherAgent.generate_lesson (agents/teacher.py)*)
(*                                                                          *)
(* Every request constructs its own RAGSystem(user_id), which loads the     *)
(* tenant's two files, works on its private copy and, for an ingest, writes *)
(* the files back.  Requests are asyncio tasks of one process: a task runs  *)
(* without interruption between awaits, and the only await of RAGSystem is  *)
(* the call to the remote embedding provider.  The process can be killed    *)
(* and restarted at any moment; the files survive, the tasks do not.        *)
(*                                                                          *)
(* Texts are tuples of one-character strings.  Floats are integers.  A      *)
(* vector is abstracted to its dimension d and one coordinate h, so that    *)
(* the squared L2 distance of two vectors is (h1 - h2)^2.  The module-level *)
(* RecursiveCharacterTextSplitter is taken to be None (rag.py:16), i.e.     *)
(* the sentence splitter of rag.py:121-134 is the one in use.               *)
EXTENDS Integers, Sequences, FiniteSets, TLC

----------------------------------------------------------------------------
(* Bounds of the model *)

(* requests of a process whose requests may interleave (Spec) *)
MaxCalls == 2

(* requests of a process whose requests run one after another (SeqSpec) *)
MaxSeqCalls == 3

(* Program constants *)

dimension == 384
REMOTE_DIMENSION == 1536
chunk_size == 500

FLT_MAX == 2147483647

Users == {"u1"}
(* the tenants that own files: the one of the requests above and a second *)
Tenants == Users \cup {"u2"}
Sources == {"bio.txt"}
TextPool == { <<"B", "a">>, <<"a", " ", "c">> }
QueryPool == { <<"B">>, <<"c", " ", "a">> }
TextLists == { <<>> } \cup { <<t>> : t \in TextPool }
Calls == 1..(IF MaxCalls > MaxSeqCalls THEN MaxCalls ELSE MaxSeqCalls)
(* k of a search: below the store size, and the default of teacher.py:25 *)
Ks == {1, 5}

----------------------------------------------------------------------------
(* Generic helpers on sequences *)

Min(a, b) == IF a < b THEN a ELSE b

(* the sum of a sequence of numbers, by halves *)
RECURSIVE SumSeq(_)
SumSeq(s) ==
    IF s = <<>> THEN 0
    ELSE IF Len(s) = 1 THEN s[1]
    ELSE LET m == Len(s) \div 2
         IN SumSeq(SubSeq(s, 1, m)) + SumSeq(SubSeq(s, m + 1, Len(s)))

(* str.lower() on the model's alphabet *)
LowerChar(ch) ==
    CASE ch = "A" -> "a"
      [] ch = "B" -> "b"
      [] ch = "C" -> "c"
      [] OTHER -> ch

Lower(s) == [i \in 1..Len(s) |-> LowerChar(s[i])]

(* `sub in s` for Python strings *)
IsSubstring(sub, s) ==
    \E i \in 0..(Len(s) - Len(sub)) :
        \A j \in 1..Len(sub) : s[i + j] = sub[j]

(* first position >= i at which sep occurs in s, 0 when there is none *)
Find(s, sep, i) ==
    LET at == {p \in i..(Len(s) - Len(sep) + 1) :
                  \A j \in 1..Len(sep) : s[p + j - 1] = sep[j]}
    IN IF at = {} THEN 0 ELSE CHOOSE p \in at : \A q \in at : p <= q

(* str.split(sep): the pieces between non-overlapping occurrences of sep *)
RECURSIVE Split(_, _)
Split(s, sep) ==
    LET p == Find(s, sep, 1) IN
    IF p = 0 THEN << s >>
    ELSE << SubSeq(s, 1, p - 1) >> \o Split(SubSeq(s, p + Len(sep), Len(s)), sep)

(* str.split(): the maximal runs of non-whitespace characters *)
WhitespaceSplit(s) ==
    LET pieces == Split(s, <<" ">>) IN
    SelectSeq(pieces, LAMBDA w : w # <<>>)

----------------------------------------------------------------------------
(* Chunker: the sentence splitter of add_documents *)

SentenceSep == <<".", " ">>

RECURSIVE ChunkSentences(_, _, _)
ChunkSentences(sentences, current_chunk, out) ==
    IF sentences = <<>>
    THEN IF current_chunk # <<>> THEN Append(out, current_chunk) ELSE out
    ELSE LET sentence == Head(sentences) IN
         IF Len(current_chunk) + Len(sentence) < chunk_size
         THEN ChunkSentences(Tail(sentences),
                             current_chunk \o sentence \o SentenceSep, out)
         ELSE ChunkSentences(Tail(sentences), sentence \o SentenceSep,
                             IF current_chunk # <<>>
                             THEN Append(out, current_chunk) ELSE out)

(* the splitter without the flush of line 133-134 at the end of the text *)
SplitText_NoFinalFlush(text) ==
    LET out == ChunkSentences(Split(text, SentenceSep), <<>>, <<>>)
    IN SubSeq(out, 1, Len(out) - 1)

(* the splitter cutting every chunk to the chunk size *)
SplitText_Truncating(text) ==
    LET out == ChunkSentences(Split(text, SentenceSep), <<>>, <<>>)
    IN [j \in 1..Len(out) |-> SubSeq(out[j], 1, Min(Len(out[j]), chunk_size))]

SplitText(text) == ChunkSentences(Split(text, SentenceSep), <<>>, <<>>)

RECURSIVE SplitTexts(_)
SplitTexts(texts) ==
    IF texts = <<>> THEN <<>>
    ELSE SplitText(Head(texts)) \o SplitTexts(Tail(texts))

----------------------------------------------------------------------------
(* The state of the process, its requests and the files *)

VARIABLES
    FAISS_AVAILABLE,   \* rag.py:19-24, fixed for the life of a process
    embeddings,        \* TRUE iff self.embeddings is a remote embedder
    index_file,        \* user_id -> the file ./faiss_index_<user_id>
    metadata_file,     \* user_id -> the file ./faiss_metadata_<user_id>.pkl
    ncalls,            \* number of requests received so far
    task,              \* the request that holds the event loop, 0 if none
    pc,                \* call -> where the request stands
    args,              \* call -> the request's arguments
    rag,               \* call -> the RAGSystem object of the request
    chunks,            \* call -> local variable chunks of add_documents
    embeddings_array,  \* call -> local variable embeddings_array
    vector_ids,        \* call -> local variable vector_ids
    provider,          \* call -> outcome of the remote embedding call
    result,            \* call -> the returned value
    exc                \* call -> the exception raised to the caller

----------------------------------------------------------------------------
(* Embedder *)

CharCode(ch) ==
    CASE ch = "a" -> 1
      [] ch = "b" -> 2
      [] ch = "c" -> 3
      [] ch = "A" -> 4
      [] ch = "B" -> 5
      [] ch = "C" -> 6
      [] ch = " " -> 7
      [] ch = "." -> 8
      [] OTHER -> 9

(* hashlib.sha256(text.encode()).digest(), abstracted to a small digest *)
Sha256(text) == SumSeq([i \in 1..Len(text) |-> i * CharCode(text[i])]) % 7

(* a vector salted by the process, as the builtin hash() of a str is, or    *)
(* seeded from what the process has served                                  *)
TextToVector_Salted(text, dim) ==
    [d |-> dim, h |-> Sha256(text) + (dim % 5) + ncalls]

(* _text_to_vector: it reads its two arguments only, never self *)
TextToVector(text, dim) == [d |-> dim, h |-> Sha256(text) + (dim % 5)]

(* the provider's answer for one text (text-embedding-ada-002) *)
RemoteEmbed(text) == [d |-> REMOTE_DIMENSION, h |-> Len(text) % 4]

NoVector == [d |-> 0, h |-> 0]

FallbackEmbeddings(chs) == [i \in 1..Len(chs) |-> TextToVector(chs[i], dimension)]

RemoteEmbeddings(chs) == [i \in 1..Len(chs) |-> RemoteEmbed(chs[i])]

----------------------------------------------------------------------------
(* The in-memory store of one RAGSystem object and the tenant's two files  *)

None == [some |-> FALSE, d |-> 0, vecs |-> <<>>]

(* faiss.IndexFlatL2(dimension) *)
IndexFlatL2(dim) == [some |-> TRUE, d |-> dim, vecs |-> <<>>]

EmptyStore == [index |-> None, metadata |-> <<>>]

(* a file of the tenant: absent, half-written (or otherwise unreadable), or *)
(* complete; `by` is the call whose save wrote it last                      *)
AbsentIndexFile == [st |-> "absent", data |-> None, by |-> 0]
AbsentMetadataFile == [st |-> "absent", data |-> <<>>, by |-> 0]

vars == << FAISS_AVAILABLE, embeddings, index_file, metadata_file, ncalls, task,
           pc, args, rag, chunks, embeddings_array, vector_ids, provider, result, exc >>

NoArgs == [kind |-> "none", user_id |-> "u1", texts |-> <<>>, source |-> "",
           query |-> <<>>, k |-> 0]

(* the files of a RAGSystem (rag.py:39-40).  A file is named by the tenant  *)
(* whose id its path embeds: f"./faiss_index_{user_id}" and                 *)
(* f"./faiss_metadata_{user_id}.pkl" differ for different ids               *)
index_path(user_id) == user_id

(* one metadata path for every tenant *)
metadata_path_Shared(user_id) == "u1"

metadata_path(user_id) == user_id

(* load_index, the body of the try (rag.py:82-89): the index file is read  *)
(* first; reading a half-written or unreadable file raises                  *)
LoadIndexTry(faiss, ifile, mfile) ==
    IF faiss /\ ifile.st = "partial"
    THEN [index |-> None, metadata |-> <<>>, exc |-> "Exception"]
    ELSE LET idx == IF faiss /\ ifile.st = "ok" THEN ifile.data ELSE None IN
         IF mfile.st = "partial"
         THEN [index |-> idx, metadata |-> <<>>, exc |-> "Exception"]
         ELSE [index |-> idx,
               metadata |-> IF mfile.st = "ok" THEN mfile.data ELSE <<>>,
               exc |-> "none"]

(* load_index without its except clause *)
LoadIndex_NoHandler(faiss, ifile, mfile) == LoadIndexTry(faiss, ifile, mfile)

(* load_index with its handler (rag.py:90-93): any exception empties the    *)
(* store and is not raised further                                          *)
LoadIndex(faiss, ifile, mfile) ==
    LET t == LoadIndexTry(faiss, ifile, mfile) IN
    IF t.exc # "none"
    THEN [index |-> None, metadata |-> <<>>, exc |-> "none"]
    ELSE t

(* RAGSystem.__init__ *)
NewRAGSystem(faiss, ifile, mfile) ==
    LET l == LoadIndex(faiss, ifile, mfile) IN
    [store |-> [index |-> l.index, metadata |-> l.metadata], exc |-> l.exc]

(* save_index with the availability test of line 97 inverted *)
SavesIndex_Inverted(faiss, store) == ~faiss /\ store.index.some

(* save_index writes the index file only for a truthy index under FAISS *)
SavesIndex(faiss, store) == faiss /\ store.index.some

WrittenIndexFile(store, c) == [st |-> "ok", data |-> store.index, by |-> c]

WrittenMetadataFile(store, c) == [st |-> "ok", data |-> store.metadata, by |-> c]

HalfWrittenIndexFile(c) == [st |-> "partial", data |-> None, by |-> c]

HalfWrittenMetadataFile(c) == [st |-> "partial", data |-> <<>>, by |-> c]

----------------------------------------------------------------------------
(* add_documents, from the embeddings to the metadata (rag.py:153-171)      *)

(* the vector id f"vec_{n}", kept as the number n *)
VectorId(n) == n

(* index.add(embeddings_array): the array must be 2-D with index.d columns *)
IndexAddRaises(index, arr) ==
    IF arr = <<>> THEN "ValueError"
    ELSE IF arr[1].d # index.d THEN "AssertionError"
    ELSE "none"

(* lines 154-158; the result carries the exception raised, if any *)
UpdateIndex(faiss, index, arr) ==
    IF ~faiss THEN [index |-> index, exc |-> "none"]
    ELSE IF ~index.some /\ arr = <<>>
         THEN [index |-> index, exc |-> "IndexError"]
    ELSE LET idx == IF index.some THEN index ELSE IndexFlatL2(arr[1].d)
             e == IndexAddRaises(idx, arr)
         IN IF e # "none" THEN [index |-> idx, exc |-> e]
            ELSE [index |-> [idx EXCEPT !.vecs = @ \o arr], exc |-> "none"]

(* lines 161-171 *)
NewRecords(faiss, start_id, chs, arr, source) ==
    [i \in 1..Len(chs) |->
        [id |-> VectorId(start_id + i - 1),
         content |-> chs[i],
         source |-> source,
         vector |-> IF ~faiss THEN arr[i] ELSE NoVector]]

(* the returned ids numbered from 0, whatever the store holds *)
VectorIds_FromZero(start_id, chs) == [i \in 1..Len(chs) |-> VectorId(i - 1)]

VectorIds(start_id, chs) == [i \in 1..Len(chs) |-> VectorId(start_id + i - 1)]

(* the store and the outcome of lines 153-171 *)
AppendDocuments(faiss, store, chs, arr, source) ==
    LET u == UpdateIndex(faiss, store.index, arr) IN
    IF u.exc # "none"
    THEN [store |-> [store EXCEPT !.index = u.index], exc |-> u.exc,
          vector_ids |-> <<>>]
    ELSE [store |-> [index |-> u.index,
                     metadata |-> store.metadata \o
                         NewRecords(faiss, Len(store.metadata), chs, arr, source)],
          exc |-> "none",
          vector_ids |-> VectorIds(Len(store.metadata), chs)]

----------------------------------------------------------------------------
(* search (rag.py:176-251)                                                  *)

(* search returning an empty list for an empty store *)
Sentinel_None(query) == <<>>

(* the "no documents" record of lines 185-189 *)
Sentinel(query) ==
    << [content |-> <<"No documents found for: ">> \o query,
        source |-> "System",
        score |-> 0] >>

(* squared L2 distance of the abstract vectors *)
L2(a, b) == (a.h - b.h) * (a.h - b.h)

(* index.search(query_vector, k): the k nearest positions, nearest first,   *)
(* equal distances in insertion order; positions are 0-based, a missing     *)
(* neighbour is position -1 at distance FLT_MAX                             *)
IndexSearch(index, qv, k) ==
    LET n == Len(index.vecs)
        Dist(i) == L2(index.vecs[i], qv)
        Before(i, j) == Dist(i) < Dist(j) \/ (Dist(i) = Dist(j) /\ i < j)
        Rank(i) == Cardinality({j \in 1..n : Before(j, i)}) + 1
        Hit(r) == CHOOSE i \in 1..n : Rank(i) = r
    IN [r \in 1..k |->
           IF r <= n THEN [idx |-> Hit(r) - 1, distance |-> Dist(Hit(r))]
           ELSE [idx |-> -1, distance |-> FLT_MAX]]

(* metadata[idx] of a Python list: a negative idx counts from the end *)
ListItem(list, idx) == IF idx >= 0 THEN list[idx + 1] ELSE list[Len(list) + 1 + idx]

(* position in the list of metadata[idx] *)
ListPosition(list, idx) == IF idx >= 0 THEN idx + 1 ELSE Len(list) + 1 + idx

(* lines 213-215 without the copy: the vector is popped from the stored     *)
(* record and the score is set in it                                        *)
StoredRecordAfterHit_NoCopy(record, distance) ==
    [id |-> record.id, content |-> record.content, source |-> record.source,
     score |-> distance]

(* the stored record after lines 213-215: the result is a copy of it, so    *)
(* the pop and the score change the copy alone                              *)
StoredRecordAfterHit(record, distance) == record

(* lines 207-218; metadata is self.metadata after the loop *)
ExactSearch(store, qv, k) ==
    IF qv.d # store.index.d
    THEN [exc |-> "AssertionError", results |-> <<>>, metadata |-> store.metadata]
    ELSE LET hits == IndexSearch(store.index, qv, k)
             kept == SelectSeq(hits, LAMBDA h : h.idx < Len(store.metadata))
             HitsAt(j) == {i \in 1..Len(kept) :
                              ListPosition(store.metadata, kept[i].idx) = j}
         IN [exc |-> "none",
             results |-> [i \in 1..Len(kept) |->
                 LET r == ListItem(store.metadata, kept[i].idx) IN
                 [id |-> r.id, content |-> r.content, source |-> r.source,
                  score |-> kept[i].distance]],
             metadata |-> [j \in 1..Len(store.metadata) |->
                 IF HitsAt(j) = {} THEN store.metadata[j]
                 ELSE StoredRecordAfterHit(store.metadata[j],
                          kept[CHOOSE i \in HitsAt(j) :
                                   \A i2 \in HitsAt(j) : i2 <= i].distance)]]

(* line 228 with the content left as it is, not lower-cased *)
KeywordScore_NoLower(query, content) ==
    LET words == WhitespaceSplit(Lower(query))
    IN Cardinality({i \in 1..Len(words) : IsSubstring(words[i], content)})

(* line 228 *)
KeywordScore(query, content) ==
    LET words == WhitespaceSplit(Lower(query))
        content_lower == Lower(content)
    IN Cardinality({i \in 1..Len(words) : IsSubstring(words[i], content_lower)})

(* lines 222-251 with the sort replaced by an ascending sort that is then   *)
(* reversed: records of equal score come out latest first                   *)
KeywordSearch_TiesReversed(store, query, k) ==
    LET md == store.metadata
        n == Len(md)
        Score(i) == KeywordScore(query, md[i].content)
        scored == {i \in 1..n : Score(i) > 0}
        Before(i, j) == Score(i) > Score(j) \/ (Score(i) = Score(j) /\ i > j)
        Rank(i) == Cardinality({j \in scored : Before(j, i)}) + 1
        At(r) == CHOOSE i \in scored : Rank(i) = r
        m == Min(k, Cardinality(scored))
    IN IF m > 0
       THEN [r \in 1..m |-> [content |-> md[At(r)].content,
                             source |-> md[At(r)].source,
                             score |-> Score(At(r))]]
       ELSE [r \in 1..Min(k, n) |-> [content |-> md[r].content,
                                     source |-> md[r].source,
                                     score |-> 0]]

(* lines 222-251: list.sort(reverse=True) is stable *)
KeywordSearch(store, query, k) ==
    LET md == store.metadata
        n == Len(md)
        Score(i) == KeywordScore(query, md[i].content)
        scored == {i \in 1..n : Score(i) > 0}
        Before(i, j) == Score(i) > Score(j) \/ (Score(i) = Score(j) /\ i < j)
        Rank(i) == Cardinality({j \in scored : Before(j, i)}) + 1
        At(r) == CHOOSE i \in scored : Rank(i) = r
        m == Min(k, Cardinality(scored))
    IN IF m > 0
       THEN [r \in 1..m |-> [content |-> md[At(r)].content,
                             source |-> md[At(r)].source,
                             score |-> Score(At(r))]]
       ELSE [r \in 1..Min(k, n) |-> [content |-> md[r].content,
                                     source |-> md[r].source,
                                     score |-> 0]]

(* line 194 *)
UsesIndex(faiss, store) == faiss /\ store.index.some

(* the query vector of lines 196-204; ok says whether the provider answered *)
QueryVector(store, query, remote, ok) ==
    IF remote /\ ok THEN RemoteEmbed(query)
    ELSE TextToVector(query, store.index.d)

(* search once the query embedding, if any, is at hand *)
Search(faiss, store, query, k0, remote, ok) ==
    IF Len(store.metadata) = 0
    THEN [exc |-> "none", results |-> Sentinel(query), metadata |-> store.metadata]
    ELSE LET k == Min(k0, Len(store.metadata)) IN
         IF UsesIndex(faiss, store)
         THEN ExactSearch(store, QueryVector(store, query, remote, ok), k)
         ELSE [exc |-> "none", results |-> KeywordSearch(store, query, k),
               metadata |-> store.metadata]

(* search awaits the provider only on the index path with a remote embedder *)
SearchAwaits(faiss, store, remote) ==
    Len(store.metadata) # 0 /\ UsesIndex(faiss, store) /\ remote

----------------------------------------------------------------------------
(* The state machine                                                        *)

Init ==
    /\ FAISS_AVAILABLE \in BOOLEAN
    /\ embeddings \in BOOLEAN
    /\ index_file = [u \in Tenants |-> AbsentIndexFile]
    /\ metadata_file = [u \in Tenants |-> AbsentMetadataFile]
    /\ ncalls = 0
    /\ task = 0
    /\ pc = [c \in Calls |-> "new"]
    /\ args = [c \in Calls |-> NoArgs]
    /\ rag = [c \in Calls |-> EmptyStore]
    /\ chunks = [c \in Calls |-> <<>>]
    /\ embeddings_array = [c \in Calls |-> <<>>]
    /\ vector_ids = [c \in Calls |-> <<>>]
    /\ provider = [c \in Calls |-> "none"]
    /\ result = [c \in Calls |-> <<>>]
    /\ exc = [c \in Calls |-> "none"]

IngestArgs == [kind : {"ingest"}, user_id : Users, texts : TextLists,
               source : Sources, query : {<<>>}, k : {0}]

SearchArgs == [kind : {"search"}, user_id : Users, texts : {<<>>},
               source : {""}, query : QueryPool, k : Ks]

(* a request arrives and constructs its RAGSystem (ingest.py:44,            *)
(* teacher.py:22): __init__ runs load_index                                 *)
Construct(c, a) ==
    /\ task = 0
    /\ c = ncalls + 1
    /\ c \in Calls
    /\ LET r == NewRAGSystem(FAISS_AVAILABLE, index_file[index_path(a.user_id)],
                             metadata_file[metadata_path(a.user_id)])
       IN /\ rag' = [rag EXCEPT ![c] = r.store]
          /\ exc' = [exc EXCEPT ![c] = r.exc]
          /\ pc' = [pc EXCEPT ![c] = IF r.exc = "none" THEN "loaded" ELSE "error"]
          /\ task' = IF r.exc = "none" THEN c ELSE 0
    /\ ncalls' = c
    /\ args' = [args EXCEPT ![c] = a]
    /\ UNCHANGED << FAISS_AVAILABLE, embeddings, index_file, metadata_file,
                    chunks, embeddings_array, vector_ids, provider, result >>

(* add_documents from the embeddings on (rag.py:153-171): on success the    *)
(* call goes on to save_index, on an exception it ends                      *)
Store(c, chs, arr) ==
    LET a == AppendDocuments(FAISS_AVAILABLE, rag[c], chs, arr, args[c].source) IN
    /\ rag' = [rag EXCEPT ![c] = a.store]
    /\ embeddings_array' = [embeddings_array EXCEPT ![c] = arr]
    /\ vector_ids' = [vector_ids EXCEPT ![c] = a.vector_ids]
    /\ exc' = [exc EXCEPT ![c] = a.exc]
    /\ pc' = [pc EXCEPT ![c] = IF a.exc = "none" THEN "save" ELSE "error"]
    /\ task' = IF a.exc = "none" THEN c ELSE 0

(* add_documents up to the embeddings (rag.py:112-151) *)
AddDocuments(c) ==
    /\ task = c
    /\ pc[c] = "loaded"
    /\ args[c].kind = "ingest"
    /\ LET chs == SplitTexts(args[c].texts) IN
       /\ chunks' = [chunks EXCEPT ![c] = chs]
       /\ IF embeddings
          THEN /\ pc' = [pc EXCEPT ![c] = "await"]
               /\ task' = 0
               /\ UNCHANGED << rag, embeddings_array, vector_ids, exc >>
          ELSE Store(c, chs, FallbackEmbeddings(chs))
    /\ UNCHANGED << FAISS_AVAILABLE, embeddings, index_file, metadata_file,
                    ncalls, args, provider, result >>

(* the await of line 140 returns: the provider answered, or it failed and   *)
(* lines 142-146 substitute the hash vectors                                *)
EmbedDocumentsReturn(c, ok) ==
    /\ task = 0
    /\ pc[c] = "await"
    /\ args[c].kind = "ingest"
    /\ provider' = [provider EXCEPT ![c] = IF ok THEN "ok" ELSE "failed"]
    /\ Store(c, chunks[c], IF ok THEN RemoteEmbeddings(chunks[c])
                                 ELSE FallbackEmbeddings(chunks[c]))
    /\ UNCHANGED << FAISS_AVAILABLE, embeddings, index_file, metadata_file,
                    ncalls, args, chunks, result >>

(* save_index, line 98: faiss.write_index opens the index file ... *)
SaveIndexOpen(c) ==
    /\ task = c
    /\ pc[c] = "save"
    /\ SavesIndex(FAISS_AVAILABLE, rag[c])
    /\ index_file' = [index_file EXCEPT ![index_path(args[c].user_id)] = HalfWrittenIndexFile(c)]
    /\ pc' = [pc EXCEPT ![c] = "writing_index"]
    /\ UNCHANGED << FAISS_AVAILABLE, embeddings, metadata_file, ncalls, task,
                    args, rag, chunks, embeddings_array, vector_ids, provider, result, exc >>

(* save_index awaiting between its two writes *)
TaskBetweenWrites_Yielding(c) == 0

(* save_index is a plain function (rag.py:95): between the write of the     *)
(* index file and that of the metadata file the call keeps the event loop   *)
TaskBetweenWrites(c) == c

(* ... and completes it *)
SaveIndexDone(c) ==
    /\ task = c
    /\ pc[c] = "writing_index"
    /\ index_file' = [index_file EXCEPT ![index_path(args[c].user_id)] = WrittenIndexFile(rag[c], c)]
    /\ pc' = [pc EXCEPT ![c] = "save_metadata"]
    /\ task' = TaskBetweenWrites(c)
    /\ UNCHANGED << FAISS_AVAILABLE, embeddings, metadata_file, ncalls,
                    args, rag, chunks, embeddings_array, vector_ids, provider, result, exc >>

(* save_index, line 101: open(metadata_path, "wb") truncates the file ... *)
SaveMetadataOpen(c) ==
    /\ task = c
    /\ \/ pc[c] = "save_metadata"
       \/ pc[c] = "save" /\ ~SavesIndex(FAISS_AVAILABLE, rag[c])
    /\ metadata_file' = [metadata_file EXCEPT ![metadata_path(args[c].user_id)] =
                            HalfWrittenMetadataFile(c)]
    /\ pc' = [pc EXCEPT ![c] = "writing_metadata"]
    /\ UNCHANGED << FAISS_AVAILABLE, embeddings, index_file, ncalls, task,
                    args, rag, chunks, embeddings_array, vector_ids, provider, result, exc >>

(* ... pickle.dump completes it, and add_documents returns vector_ids *)
SaveMetadataDone(c) ==
    /\ task = c
    /\ pc[c] = "writing_metadata"
    /\ metadata_file' = [metadata_file EXCEPT ![metadata_path(args[c].user_id)] =
                            WrittenMetadataFile(rag[c], c)]
    /\ pc' = [pc EXCEPT ![c] = "returned"]
    /\ result' = [result EXCEPT ![c] = vector_ids[c]]
    /\ task' = 0
    /\ UNCHANGED << FAISS_AVAILABLE, embeddings, index_file, ncalls, args, rag,
                    chunks, embeddings_array, vector_ids, provider, exc >>

(* save_index with the write wrapped in a try that swallows the error *)
WriteFailureOutcome_Swallowed(c) ==
    [pc |-> "returned", exc |-> "none", result |-> vector_ids[c]]

(* what a failing write does to the call: save_index has no handler, the    *)
(* OSError leaves add_documents and no ids are returned                     *)
WriteFailureOutcome(c) == [pc |-> "error", exc |-> "OSError", result |-> <<>>]

(* a write fails (disk full, permission denied) before or in the middle of  *)
(* either file; the file stays as the failed write left it                  *)
WriteFailure(c) ==
    /\ task = c
    /\ pc[c] \in {"save", "writing_index", "save_metadata", "writing_metadata"}
    /\ LET o == WriteFailureOutcome(c) IN
       /\ pc' = [pc EXCEPT ![c] = o.pc]
       /\ exc' = [exc EXCEPT ![c] = o.exc]
       /\ result' = [result EXCEPT ![c] = o.result]
    /\ task' = 0
    /\ UNCHANGED << FAISS_AVAILABLE, embeddings, index_file, metadata_file, ncalls,
                    args, rag, chunks, embeddings_array, vector_ids, provider >>

(* search ends with a result list or with the exception of index.search *)
Finish(c, s) ==
    /\ rag' = [rag EXCEPT ![c].metadata = s.metadata]
    /\ pc' = [pc EXCEPT ![c] = IF s.exc = "none" THEN "returned" ELSE "error"]
    /\ exc' = [exc EXCEPT ![c] = s.exc]
    /\ result' = [result EXCEPT ![c] = s.results]
    /\ task' = 0

(* search up to the await of line 199, or to its end when it does not await *)
SearchBegin(c) ==
    /\ task = c
    /\ pc[c] = "loaded"
    /\ args[c].kind = "search"
    /\ IF SearchAwaits(FAISS_AVAILABLE, rag[c], embeddings)
       THEN /\ pc' = [pc EXCEPT ![c] = "await"]
            /\ task' = 0
            /\ UNCHANGED << rag, exc, result >>
       ELSE Finish(c, Search(FAISS_AVAILABLE, rag[c], args[c].query, args[c].k,
                             embeddings, FALSE))
    /\ UNCHANGED << FAISS_AVAILABLE, embeddings, index_file, metadata_file, ncalls,
                    args, chunks, embeddings_array, vector_ids, provider >>

(* the await of line 199 returns, with the provider's vector or without *)
EmbedQueryReturn(c, ok) ==
    /\ task = 0
    /\ pc[c] = "await"
    /\ args[c].kind = "search"
    /\ provider' = [provider EXCEPT ![c] = IF ok THEN "ok" ELSE "failed"]
    /\ Finish(c, Search(FAISS_AVAILABLE, rag[c], args[c].query, args[c].k,
                        embeddings, ok))
    /\ UNCHANGED << FAISS_AVAILABLE, embeddings, index_file, metadata_file, ncalls,
                    args, chunks, embeddings_array, vector_ids >>

(* the store of an abandoned call if the handler of line 142 caught the     *)
(* cancellation and the call went on to lines 144-171                       *)
AbandonedStore_Caught(faiss, store, chs, source) ==
    AppendDocuments(faiss, store, chs, FallbackEmbeddings(chs), source).store

(* the store of a call abandoned in its await: asyncio.CancelledError is no *)
(* Exception, so the handlers of lines 142 and 201 let it pass and nothing  *)
(* after the await runs                                                     *)
AbandonedStore(faiss, store, chs, source) == store

(* the caller abandons a request that is suspended in its await *)
Cancel(c) ==
    /\ task = 0
    /\ pc[c] = "await"
    /\ pc' = [pc EXCEPT ![c] = "cancelled"]
    /\ rag' = [rag EXCEPT ![c] = AbandonedStore(FAISS_AVAILABLE, rag[c], chunks[c],
                                                args[c].source)]
    /\ UNCHANGED << FAISS_AVAILABLE, embeddings, index_file, metadata_file, ncalls,
                    task, args, chunks, embeddings_array, vector_ids, provider, result, exc >>

Live(c) == pc[c] \in {"loaded", "await", "save", "writing_index",
                      "save_metadata", "writing_metadata"}

(* the process is killed and started again: every request in flight is     *)
(* lost, the files stay as they are.  The import of rag.py:19-24 runs again *)
(* and may find faiss installed in the meantime (it is not uninstalled)     *)
Restart(faiss) ==
    /\ \E c \in Calls : pc[c] # "new"
    /\ FAISS_AVAILABLE => faiss
    /\ FAISS_AVAILABLE' = faiss
    /\ embeddings' = embeddings
    /\ pc' = [c \in Calls |-> IF Live(c) THEN "killed" ELSE pc[c]]
    /\ task' = 0
    /\ UNCHANGED << index_file, metadata_file, ncalls, args, rag, chunks,
                    embeddings_array, vector_ids, provider, result, exc >>

Next ==
    \/ \E c \in 1..MaxCalls, a \in IngestArgs \cup SearchArgs : Construct(c, a)
    \/ \E c \in Calls : AddDocuments(c)
    \/ \E c \in Calls, ok \in BOOLEAN : EmbedDocumentsReturn(c, ok)
    \/ \E c \in Calls : SaveIndexOpen(c)
    \/ \E c \in Calls : SaveIndexDone(c)
    \/ \E c \in Calls : SaveMetadataOpen(c)
    \/ \E c \in Calls : SaveMetadataDone(c)
    \/ \E c \in Calls : WriteFailure(c)
    \/ \E c \in Calls : SearchBegin(c)
    \/ \E c \in Calls, ok \in BOOLEAN : EmbedQueryReturn(c, ok)
    \/ \E c \in Calls : Cancel(c)
    \/ \E faiss \in BOOLEAN : Restart(faiss)

Spec == Init /\ [][Next]_vars

(* A process without a remote embedder (rag.py:59-60): no request awaits,   *)
(* so the requests run one after another                                    *)
SeqInit == Init /\ ~embeddings

SeqNext ==
    \/ \E c \in 1..MaxSeqCalls, a \in IngestArgs \cup SearchArgs : Construct(c, a)
    \/ \E c \in Calls : AddDocuments(c)
    \/ \E c \in Calls : SaveIndexOpen(c)
    \/ \E c \in Calls : SaveIndexDone(c)
    \/ \E c \in Calls : SaveMetadataOpen(c)
    \/ \E c \in Calls : SaveMetadataDone(c)
    \/ \E c \in Calls : WriteFailure(c)
    \/ \E c \in Calls : SearchBegin(c)
    \/ \E faiss \in BOOLEAN : Restart(faiss)

SeqSpec == SeqInit /\ [][SeqNext]_vars

----------------------------------------------------------------------------
(* Long documents: an upload of a short document followed by one of a long  *)
(* document, in a process without a remote embedder.  The long document is  *)
(* made of up to MaxSentences sentences, empty, short, of half the chunk    *)
(* size, a little shorter than that and longer than the chunk size, joined  *)
(* by ". "                                                                  *)

MaxSentences == 3

Repeat(ch, n) == [i \in 1..n |-> ch]

SentencePool == { <<>>, <<"a">>, Repeat("b", chunk_size \div 2),
                  Repeat("c", chunk_size + 1), Repeat("a", chunk_size \div 2 - 3) }

(* ". ".join(sentences) *)
RECURSIVE Join(_)
Join(sentences) ==
    IF Len(sentences) = 1 THEN sentences[1]
    ELSE sentences[1] \o SentenceSep \o Join(Tail(sentences))

LongTexts ==
    { Join(ss) : ss \in UNION { [1..n -> SentencePool] : n \in 1..MaxSentences } }

LongIngestArgs == [kind : {"ingest"}, user_id : Users,
                   texts : { <<t>> : t \in LongTexts },
                   source : Sources, query : {<<>>}, k : {0}]

ChunkerNext ==
    \/ \E a \in IngestArgs : Construct(1, a)
    \/ \E a \in LongIngestArgs : Construct(2, a)
    \/ \E c \in Calls : AddDocuments(c)
    \/ \E c \in Calls : SaveIndexOpen(c)
    \/ \E c \in Calls : SaveIndexDone(c)
    \/ \E c \in Calls : SaveMetadataOpen(c)
    \/ \E c \in Calls : SaveMetadataDone(c)

ChunkerSpec == SeqInit /\ [][ChunkerNext]_vars

----------------------------------------------------------------------------
(* Two tenants: each uploads its own document and searches, in a process    *)
(* without a remote embedder                                                *)

TenantText(u) == IF u = "u1" THEN <<"B", "a">> ELSE <<"a", " ", "c">>

TenantArgs ==
    { [kind |-> "ingest", user_id |-> u, texts |-> <<TenantText(u)>>,
       source |-> "bio.txt", query |-> <<>>, k |-> 0] : u \in Tenants }
    \cup [kind : {"search"}, user_id : Tenants, texts : {<<>>},
          source : {""}, query : QueryPool, k : {1}]

TenantNext ==
    \/ \E c \in 1..MaxSeqCalls, a \in TenantArgs : Construct(c, a)
    \/ \E c \in Calls : AddDocuments(c)
    \/ \E c \in Calls : SaveIndexOpen(c)
    \/ \E c \in Calls : SaveIndexDone(c)
    \/ \E c \in Calls : SaveMetadataOpen(c)
    \/ \E c \in Calls : SaveMetadataDone(c)
    \/ \E c \in Calls : WriteFailure(c)
    \/ \E c \in Calls : SearchBegin(c)

TenantSpec == SeqInit /\ [][TenantNext]_vars

----------------------------------------------------------------------------
(* Searches whose query scores the two documents equally, or matches none,  *)
(* in a process without a remote embedder                                   *)

TieQueryPool == { <<"a">>, <<"c", "c">> }

TieSearchArgs == [kind : {"search"}, user_id : Users, texts : {<<>>},
                  source : {""}, query : TieQueryPool, k : Ks]

RankingNext ==
    \/ \E c \in 1..MaxSeqCalls, a \in IngestArgs \cup TieSearchArgs : Construct(c, a)
    \/ \E c \in Calls : AddDocuments(c)
    \/ \E c \in Calls : SaveIndexOpen(c)
    \/ \E c \in Calls : SaveIndexDone(c)
    \/ \E c \in Calls : SaveMetadataOpen(c)
    \/ \E c \in Calls : SaveMetadataDone(c)
    \/ \E c \in Calls : SearchBegin(c)

RankingSpec == SeqInit /\ [][RankingNext]_vars

----------------------------------------------------------------------------
(* Vocabulary of the properties                                             *)

IsIngest(c) == args[c].kind = "ingest"

IsSearch(c) == args[c].kind = "search"

User(c) == args[c].user_id

Saving(c) == pc[c] \in {"save", "writing_index", "save_metadata", "writing_metadata"}

(* the records of the tenant's metadata file, none when it is not readable *)
Persisted(u) == IF metadata_file[u].st = "ok" THEN metadata_file[u].data ELSE <<>>

(* how often the chunk text with the source occurs in a list of records *)
Occurrences(md, text, source) ==
    Cardinality({i \in 1..Len(md) : md[i].content = text /\ md[i].source = source})

(* how often the returned ingests of tenant u ingested the text *)
Ingested(u, text, source) ==
    Cardinality({p \in UNION {{<<c, i>> : i \in 1..Len(chunks[c])} : c \in Calls} :
        /\ IsIngest(p[1]) /\ pc[p[1]] = "returned" /\ User(p[1]) = u
        /\ args[p[1]].source = source
        /\ chunks[p[1]][p[2]] = text})

(* every ingest so far received for tenant u has returned its ids *)
AllIngestsReturned(u) ==
    \A c \in Calls : pc[c] # "new" /\ IsIngest(c) /\ User(c) = u => pc[c] = "returned"

ChunkTexts == UNION {{chunks[c][i] : i \in 1..Len(chunks[c])} : c \in Calls}

Range(s) == {s[i] : i \in 1..Len(s)}

(* C1: when all ingests received for a tenant have completed successfully   *)
(* (two of them or more, in any interleaving), the tenant's metadata file   *)
(* holds every record of every one of them                                  *)
C1_NoIngestLost ==
    \A u \in Users :
        AllIngestsReturned(u) =>
            \A text \in ChunkTexts, source \in Sources :
                Occurrences(Persisted(u), text, source) >= Ingested(u, text, source)

(* C2: no id is returned by two ingests of one tenant, no two persisted     *)
(* records carry one id, and the ids of a later ingest are greater than     *)
(* all ids of an earlier one                                                *)
C2_IdsUniqueNeverReused ==
    /\ \A c1, c2 \in Calls :
          /\ c1 < c2 /\ IsIngest(c1) /\ IsIngest(c2) /\ User(c1) = User(c2)
          /\ pc[c1] = "returned" /\ pc[c2] = "returned"
          => \A i \in Range(result[c1]), j \in Range(result[c2]) : i < j
    /\ \A u \in Users : \A i, j \in 1..Len(Persisted(u)) :
          i # j => Persisted(u)[i].id # Persisted(u)[j].id

(* C3: no reachable persisted state holds a half-written file, or an index  *)
(* file of a save whose metadata file was not written                       *)
C3_PersistedStateNeverTorn ==
    \A u \in Users :
        /\ index_file[u].st # "partial"
        /\ metadata_file[u].st # "partial"
        /\ index_file[u].st = "ok" => index_file[u].by <= metadata_file[u].by

(* the store a freshly constructed RAGSystem holds, given the two files *)
FreshStore(faiss, ifile, mfile) == NewRAGSystem(faiss, ifile, mfile).store

SameSearches(faiss, remote, s1, s2) ==
    \A q \in QueryPool, k \in Ks, ok \in BOOLEAN :
        Search(faiss, s1, q, k, remote, ok) = Search(faiss, s2, q, k, remote, ok)

JustReturned(c) == pc[c] # "returned" /\ pc'[c] = "returned"

(* C4: when an ingest has saved its store and returns, a RAGSystem freshly  *)
(* constructed from the files holds the same records in the same order and  *)
(* answers every search (query, k, provider outcome) with the same results  *)
(* and scores as the store that was saved                                   *)
C4_RoundTrip ==
    [][\A c \in Calls :
          JustReturned(c) /\ IsIngest(c) =>
              LET fresh == FreshStore(FAISS_AVAILABLE', index_file'[User(c)],
                                      metadata_file'[User(c)])
              IN /\ fresh.metadata = rag'[c].metadata
                 /\ \/ fresh = rag'[c]
                    \/ SameSearches(FAISS_AVAILABLE', embeddings', fresh, rag'[c])]_vars

C4_Witness ==
    \E c \in Calls :
        /\ IsIngest(c) /\ pc[c] = "returned" /\ FAISS_AVAILABLE
        /\ Len(rag[c].metadata) = 2
        /\ index_file[User(c)] = WrittenIndexFile(rag[c], c)
        /\ metadata_file[User(c)] = WrittenMetadataFile(rag[c], c)
        /\ FreshStore(TRUE, index_file[User(c)], metadata_file[User(c)]) = rag[c]

(* a read that load_index attempts fails *)
ReadFails(u) ==
    \/ FAISS_AVAILABLE /\ index_file[u].st = "partial"
    \/ metadata_file[u].st = "partial"

SearchesGiveSentinel(store) ==
    \A q \in QueryPool, k \in Ks, ok \in BOOLEAN :
        LET s == Search(FAISS_AVAILABLE, store, q, k, embeddings, ok)
        IN s.exc = "none" /\ s.results = Sentinel(q)

(* C5 as claimed: a store constructed while the index file or the metadata  *)
(* file is missing, unreadable or corrupt is constructed without an         *)
(* exception, is empty (no index, zero records), and searches on it give    *)
(* the sentinel                                                             *)
C5_MissingOrCorruptStartsEmpty ==
    \A c \in Calls :
        /\ exc[c] # "Exception"
        /\ (/\ pc[c] = "loaded"
            /\ (index_file[User(c)].st # "ok" \/ metadata_file[User(c)].st # "ok"))
           => rag[c] = EmptyStore /\ SearchesGiveSentinel(rag[c])

(* C5, amended: construction never raises; when a read that load_index      *)
(* attempts fails the store is empty; when the metadata file is missing     *)
(* the store has zero records; in both cases searches give the sentinel     *)
C5_UnreadableStartsEmpty ==
    \A c \in Calls :
        /\ exc[c] # "Exception"
        /\ (pc[c] = "loaded" /\ ReadFails(User(c))) => rag[c] = EmptyStore
        /\ (/\ pc[c] = "loaded"
            /\ (ReadFails(User(c)) \/ metadata_file[User(c)].st = "absent"))
           => rag[c].metadata = <<>> /\ SearchesGiveSentinel(rag[c])

C5_Witness ==
    \E c \in Calls :
        /\ pc[c] = "loaded"
        /\ index_file[User(c)].st = "ok"
        /\ metadata_file[User(c)].st = "partial"
        /\ rag[c] = EmptyStore

(* the i-th id returned by c names a record of c's store that holds the     *)
(* i-th chunk, and the metadata file holds that record at the same place    *)
StoredAndPersisted(faiss, store, ifile, mfile, ids, chs, source) ==
    /\ Len(ids) = Len(chs)
    /\ mfile.st = "ok"
    /\ faiss => /\ ifile.st = "ok"
                /\ ifile.data = store.index
                /\ Len(store.index.vecs) >= Len(chs)
    /\ \A i \in 1..Len(ids) :
          \E j \in 1..Len(store.metadata) :
              /\ store.metadata[j].id = ids[i]
              /\ store.metadata[j].content = chs[i]
              /\ store.metadata[j].source = source
              /\ j <= Len(mfile.data)
              /\ mfile.data[j] = store.metadata[j]

(* C6: an ingest ends by returning ids, and then without an exception and   *)
(* with all its records in its store and in the metadata file, or by        *)
(* raising, and then it returns no ids; an ingest whose write failed has    *)
(* raised                                                                   *)
C6_IngestSucceedsOrFails ==
    [][\A c \in Calls :
          IsIngest(c) =>
              /\ JustReturned(c) =>
                    /\ exc'[c] = "none"
                    /\ StoredAndPersisted(FAISS_AVAILABLE', rag'[c],
                           index_file'[User(c)], metadata_file'[User(c)],
                           result'[c], chunks'[c], args'[c].source)
              /\ pc'[c] = "error" => exc'[c] # "none" /\ result'[c] = <<>>
              /\ (/\ Saving(c) /\ pc'[c] \in {"returned", "error"}
                  /\ UNCHANGED << index_file, metadata_file >>)
                 => pc'[c] = "error"]_vars

C6_Witness ==
    \E c1, c2 \in Calls :
        /\ IsIngest(c1) /\ pc[c1] = "returned" /\ Len(result[c1]) = 1
        /\ IsIngest(c2) /\ pc[c2] = "error" /\ exc[c2] = "OSError"
        /\ metadata_file[User(c2)].st = "partial"

(* the dimension the store had before the call: that of its index, or of    *)
(* the vector of its first record                                           *)
EstablishedDimension(store) ==
    IF store.index.some /\ store.index.vecs # <<>> THEN store.index.vecs[1].d
    ELSE IF store.metadata # <<>> THEN store.metadata[1].vector.d
    ELSE 0

DimensionMismatch(c) ==
    /\ embeddings_array[c] # <<>>
    /\ EstablishedDimension(rag[c]) # 0
    /\ embeddings_array[c][1].d # EstablishedDimension(rag[c])

(* C7: an ingest whose vectors differ in dimension from the store's         *)
(* established dimension is rejected: it raises, goes on to no save and     *)
(* returns no ids, with or without a vector index                           *)
C7_DimensionMismatchRejected ==
    \A c \in Calls :
        IsIngest(c) /\ DimensionMismatch(c) =>
            /\ ~Saving(c)
            /\ pc[c] # "returned"
            /\ vector_ids[c] = <<>>

VectorDimensions(store) ==
    {store.metadata[i].vector.d : i \in 1..Len(store.metadata)} \ {0}

(* C8: in every store, in memory or persisted, all records that carry a     *)
(* vector carry vectors of one dimension                                    *)
C8_OneDimensionPerStore ==
    /\ \A c \in Calls : Cardinality(VectorDimensions(rag[c])) <= 1
    /\ \A u \in Users :
          Cardinality({Persisted(u)[i].vector.d : i \in 1..Len(Persisted(u))} \ {0}) <= 1

(* C9: a call during which the embedding provider failed raises nothing     *)
(* that comes from the embedding: it ends, if at all with an exception,     *)
(* with that of a failed write or of an empty chunk list                    *)
C9_ProviderFailureNotSurfaced ==
    \A c \in Calls :
        provider[c] = "failed" /\ chunks[c] # <<>> /\ pc[c] = "error"
            => exc[c] = "OSError"

(* C10: no search ends with an exception *)
C10_SearchNeverFails ==
    \A c \in Calls : IsSearch(c) => pc[c] # "error" /\ exc[c] = "none"

(* the record is the "no documents" record search gives for the query *)
IsSentinelRecord(r, query) ==
    /\ r.source = "System"
    /\ r.score = 0
    /\ r.content = Sentinel(query)[1].content

(* C11: a search on a store without records returns exactly one record,     *)
(* with score 0 and the source marker "System", whatever the query and k;   *)
(* a search on a store with records returns no such record                  *)
C11_SentinelIffEmpty ==
    \A c \in Calls :
        IsSearch(c) /\ pc[c] = "returned" =>
            IF rag[c].metadata = <<>>
            THEN /\ Len(result[c]) = 1
                 /\ IsSentinelRecord(result[c][1], args[c].query)
            ELSE \A i \in 1..Len(result[c]) :
                    /\ ~IsSentinelRecord(result[c][i], args[c].query)
                    /\ result[c][i].source # "System"

C11_Witness ==
    \E c \in Calls :
        /\ IsSearch(c) /\ pc[c] = "returned" /\ args[c].k = 5
        /\ rag[c].metadata = <<>>
        /\ result[c] = Sentinel(args[c].query)

(* C12: a search with k >= 1 on a store with records returns exactly        *)
(* min(k, number of records) results, with the vector index and without     *)
C12_ResultCount ==
    \A c \in Calls :
        (/\ IsSearch(c) /\ pc[c] = "returned"
         /\ rag[c].metadata # <<>> /\ args[c].k >= 1)
        => Len(result[c]) = Min(args[c].k, Len(rag[c].metadata))

(* C13: without the vector index, the score of every returned record is the *)
(* number of lower-cased query words contained in its lower-cased content,  *)
(* the scores do not increase along the result list, and no record with a   *)
(* positive score is left out or placed behind one with score 0             *)
C13_KeywordRanking ==
    \A c \in Calls :
        (/\ IsSearch(c) /\ pc[c] = "returned"
         /\ rag[c].metadata # <<>> /\ ~UsesIndex(FAISS_AVAILABLE, rag[c]))
        => LET res == result[c]
               md == rag[c].metadata
               q == args[c].query
               k == Min(args[c].k, Len(md))
               TrueScore(content) ==
                   Cardinality({i \in 1..Len(WhitespaceSplit(Lower(q))) :
                       IsSubstring(WhitespaceSplit(Lower(q))[i], Lower(content))})
               positive == {j \in 1..Len(md) : TrueScore(md[j].content) > 0}
           IN /\ \A i \in 1..Len(res) : res[i].score = TrueScore(res[i].content)
              /\ \A i, j \in 1..Len(res) : i < j => res[i].score >= res[j].score
              /\ \A i \in 1..Len(res) :
                    res[i].score = 0 => Cardinality(positive) < i
              /\ Cardinality({i \in 1..Len(res) : res[i].score > 0})
                    = Min(k, Cardinality(positive))
              /\ \A j \in positive :
                    (\E i \in 1..Len(res) : res[i].content = md[j].content)
                    \/ \A i \in 1..Len(res) :
                           res[i].score >= TrueScore(md[j].content)

C13_Witness ==
    \E c \in Calls :
        /\ IsSearch(c) /\ pc[c] = "returned" /\ ~FAISS_AVAILABLE
        /\ Len(rag[c].metadata) = 2
        /\ Len(result[c]) = 2
        /\ result[c][1].score = 2 /\ result[c][2].score = 1
        /\ result[c][1].content = rag[c].metadata[2].content

(* the vector a record was ingested with, when no remote embedder is in use *)
RecordVector(content) == TextToVector(content, dimension)

(* C14: with the vector index, the scores of a result list are the squared  *)
(* distances of the returned records to the query vector and do not         *)
(* decrease along the list, the list holds the min(k, size) records         *)
(* nearest to the query, and of two returned records at equal distance the  *)
(* one inserted earlier comes first                                         *)
C14_ExactRanking ==
    \A c \in Calls :
        (/\ IsSearch(c) /\ pc[c] = "returned"
         /\ rag[c].metadata # <<>> /\ UsesIndex(FAISS_AVAILABLE, rag[c]))
        => LET res == result[c]
               md == rag[c].metadata
               qv == TextToVector(args[c].query, rag[c].index.d)
               Dist(content) == L2(RecordVector(content), qv)
           IN /\ Len(res) = Min(args[c].k, Len(md))
              /\ \A i \in 1..Len(res) : res[i].score = Dist(res[i].content)
              /\ \A i, j \in 1..Len(res) :
                    i < j => /\ res[i].score <= res[j].score
                             /\ res[i].score = res[j].score => res[i].id < res[j].id
              /\ \A j \in 1..Len(md) :
                    (\E i \in 1..Len(res) : res[i].id = md[j].id)
                    \/ \A i \in 1..Len(res) : res[i].score <= Dist(md[j].content)

(* C15: an ingest of the empty string produces no chunk and adds no record  *)
C15_EmptyTextNoChunk ==
    \A c \in Calls :
        (IsIngest(c) /\ args[c].texts = << <<>> >> /\ pc[c] \notin {"new", "loaded"})
        => chunks[c] = <<>> /\ vector_ids[c] = <<>>

(* the sentences of the texts of a call, in input order *)
RECURSIVE SentencesOf(_)
SentencesOf(texts) ==
    IF texts = <<>> THEN <<>>
    ELSE Split(Head(texts), SentenceSep) \o SentencesOf(Tail(texts))

RECURSIVE Concat(_)
Concat(seqs) == IF seqs = <<>> THEN <<>> ELSE Head(seqs) \o Concat(Tail(seqs))

(* the length of the first n sequences of seqs, each followed by extra      *)
(* characters                                                               *)
RECURSIVE LengthUpTo(_, _, _)
LengthUpTo(seqs, n, extra) ==
    IF n = 0 THEN 0
    ELSE LengthUpTo(seqs, n - 1, extra) + Len(seqs[n]) + extra

Split_Done(c) == IsIngest(c) /\ pc[c] \notin {"new", "loaded"}

(* C16: the chunks of an ingest, concatenated, are the sentences of its     *)
(* texts in input order, each followed by ". " (so every text is covered);  *)
(* every chunk ends where a sentence ends, so every sentence lies whole in  *)
(* exactly one chunk; no chunk is empty                                     *)
C16_ChunkCoverage ==
    \A c \in Calls :
        Split_Done(c) =>
            LET chs == chunks[c]
                sents == SentencesOf(args[c].texts)
                SentenceEnds == {LengthUpTo(sents, n, Len(SentenceSep)) :
                                    n \in 1..Len(sents)}
            IN /\ Concat(chs) = Concat([n \in 1..Len(sents) |->
                                           sents[n] \o SentenceSep])
               /\ \A t \in 1..Len(args[c].texts) :
                     Join(Split(args[c].texts[t], SentenceSep)) = args[c].texts[t]
               /\ \A j \in 1..Len(chs) :
                     /\ chs[j] # <<>>
                     /\ LengthUpTo(chs, j, 0) \in SentenceEnds

C16_Witness ==
    \E c \in Calls :
        /\ Split_Done(c)
        /\ Len(SentencesOf(args[c].texts)) = 3
        /\ Len(chunks[c]) = 2
        /\ Len(chunks[c][1]) > chunk_size
        /\ Len(chunks[c][2]) < chunk_size

(* C17: a sentence longer than the chunk size is never cut or left out: it  *)
(* is a chunk of its own, followed by ". ", whether it is the first, a      *)
(* middle or the last sentence of its text                                  *)
C17_LongSentenceWhole ==
    \A c \in Calls :
        Split_Done(c) =>
            LET sents == SentencesOf(args[c].texts) IN
            \A n \in 1..Len(sents) :
                Len(sents[n]) > chunk_size =>
                    /\ \E j \in 1..Len(chunks[c]) :
                          /\ chunks[c][j] = sents[n] \o SentenceSep
                          /\ LengthUpTo(chunks[c], j, 0)
                                = LengthUpTo(sents, n, Len(SentenceSep))

C17_Witness ==
    \E c \in Calls :
        /\ Split_Done(c)
        /\ LET sents == SentencesOf(args[c].texts) IN
           /\ Len(sents) = 3
           /\ Len(sents[1]) = 1 /\ Len(sents[2]) > chunk_size /\ Len(sents[3]) = 1
           /\ Len(chunks[c]) = 3
           /\ chunks[c][2] = sents[2] \o SentenceSep

(* the step of an ingest that appends its records and goes on to save *)
Appends(c) == pc[c] \in {"loaded", "await"} /\ pc'[c] = "save"

(* C18: the step of an ingest that appends the records of its n chunks      *)
(* makes the store n records longer and yields n ids, in chunk order: the   *)
(* i-th id is the id of the i-th appended record, whose content is the      *)
(* i-th chunk and whose source is the source of the call; the save changes  *)
(* none of this, and the ids are what a successful ingest returns           *)
C18_IdsMatchRecords ==
    [][\A c \in Calls :
          IsIngest(c) =>
              /\ Appends(c) =>
                    LET n == Len(chunks'[c])
                        pre == Len(rag[c].metadata)
                        md == rag'[c].metadata
                        ids == vector_ids'[c]
                    IN /\ Len(ids) = n
                       /\ Len(md) = pre + n
                       /\ \A i \in 1..n :
                             /\ md[pre + i].id = ids[i]
                             /\ md[pre + i].content = chunks'[c][i]
                             /\ md[pre + i].source = args[c].source
                       /\ \A i, j \in 1..n : i < j => ids[i] < ids[j]
              /\ Saving(c) =>
                    /\ rag'[c] = rag[c]
                    /\ chunks'[c] = chunks[c]
                    /\ vector_ids'[c] = vector_ids[c]
              /\ JustReturned(c) => result'[c] = vector_ids[c]]_vars

C18_Witness ==
    \E c \in Calls :
        /\ IsIngest(c) /\ pc[c] = "returned"
        /\ Len(chunks[c]) = 3
        /\ Len(rag[c].metadata) = 4
        /\ result[c] = <<1, 2, 3>>
        /\ \A i \in 1..3 : rag[c].metadata[i + 1].content = chunks[c][i]

IsPrefix(s, t) == Len(s) <= Len(t) /\ SubSeq(t, 1, Len(s)) = s

(* the step of an ingest that begins to overwrite the metadata file *)
OverwritesMetadata(c) == pc[c] # "writing_metadata" /\ pc'[c] = "writing_metadata"

(* C19: no step of an ingest changes or moves a record its store holds,     *)
(* and the records of the metadata file an ingest overwrites are a prefix   *)
(* of the records it writes                                                 *)
C19_AppendOnly ==
    [][\A c \in Calls :
          IsIngest(c) /\ pc[c] # "new" =>
              /\ IsPrefix(rag[c].metadata, rag'[c].metadata)
              /\ OverwritesMetadata(c) =>
                    IsPrefix(Persisted(User(c)), rag[c].metadata)]_vars

(* a step of the search call c *)
SearchStep(c) == args'[c].kind = "search" /\ pc'[c] # pc[c]

(* C20: no step of a search changes the files of any tenant, the records    *)
(* or the index of its own store once it is constructed, or the store of    *)
(* another request; the files change only in steps of an ingest that is     *)
(* saving                                                                   *)
C20_SearchChangesNothing ==
    [][/\ \A c \in Calls :
             SearchStep(c) =>
                 /\ UNCHANGED << index_file, metadata_file >>
                 /\ pc[c] # "new" => rag'[c] = rag[c]
                 /\ \A c2 \in Calls \ {c} : rag'[c2] = rag[c2]
       /\ (index_file' # index_file \/ metadata_file' # metadata_file)
             => \E c \in Calls : IsIngest(c) /\ Saving(c) /\ pc'[c] # pc[c]]_vars

C20_Witness ==
    \E c \in Calls :
        /\ IsSearch(c) /\ pc[c] = "returned" /\ FAISS_AVAILABLE
        /\ rag[c].index.some
        /\ Len(result[c]) = 1 /\ result[c][1].score > 0
        /\ rag[c].metadata = metadata_file[User(c)].data
        /\ rag[c].index = index_file[User(c)].data

(* the step in which the request c constructs its RAGSystem *)
Loads(c) == pc[c] = "new" /\ pc'[c] # "new"

(* C21: a search loads its store from the tenant's files at a moment when   *)
(* no ingest of the tenant is in the middle of its save, and every ingest   *)
(* of the tenant in flight at that moment has written nothing yet; no step  *)
(* of another request changes the store the search holds; and the search    *)
(* returns what search gives on the store it loaded                         *)
C21_SearchSeesWholeStore ==
    [][\A c \in Calls :
          args'[c].kind = "search" =>
              /\ Loads(c) =>
                    LET u == args'[c].user_id IN
                    /\ rag'[c] = FreshStore(FAISS_AVAILABLE, index_file[u],
                                            metadata_file[u])
                    /\ \A i \in Calls \ {c} :
                          IsIngest(i) /\ User(i) = u /\ Live(i) =>
                              /\ ~Saving(i)
                              /\ index_file[u].by # i
                              /\ metadata_file[u].by # i
              /\ pc[c] # "new" => rag'[c] = rag[c]
              /\ JustReturned(c) =>
                    \E ok \in BOOLEAN :
                        result'[c] = Search(FAISS_AVAILABLE, rag[c], args[c].query,
                                            args[c].k, embeddings, ok).results]_vars

(* a search ran while an ingest of the tenant was suspended, and returned   *)
(* the result of the store from before the ingest                           *)
C21_Witness ==
    \E i, c \in Calls :
        /\ i < c /\ IsIngest(i) /\ IsSearch(c) /\ User(i) = User(c)
        /\ pc[i] = "returned" /\ pc[c] = "returned"
        /\ provider[i] # "none"
        /\ result[i] # <<>>
        /\ Persisted(User(c)) = rag[i].metadata
        /\ rag[c].metadata = <<>>
        /\ result[c] = Sentinel(args[c].query)

(* the step in which the caller abandons the suspended request c *)
Abandons(c) == pc[c] = "await" /\ pc'[c] = "cancelled"

(* C22: a request suspended in its await has changed neither its store nor  *)
(* a file since it loaded the store, and the step that abandons it changes  *)
(* neither: the store it holds is still the one it loaded, it has no ids,   *)
(* and no file was written by it                                            *)
C22_AbandonChangesNothing ==
    [][\A c \in Calls :
          /\ (pc[c] \in {"loaded", "await"} /\ pc'[c] \in {"await", "cancelled"})
                => rag'[c] = rag[c]
          /\ Abandons(c) =>
                /\ UNCHANGED << index_file, metadata_file >>
                /\ vector_ids'[c] = <<>> /\ result'[c] = <<>>
                /\ \A u \in Users : index_file'[u].by # c /\ metadata_file'[u].by # c
          /\ (pc[c] = "cancelled" /\ IsIngest(c)) =>
                /\ rag'[c] = rag[c]
                /\ \A u \in Users : index_file'[u].by # c /\ metadata_file'[u].by # c]_vars

C22_Witness ==
    \E c \in Calls :
        /\ IsIngest(c) /\ pc[c] = "cancelled"
        /\ chunks[c] # <<>>
        /\ rag[c] = EmptyStore
        /\ index_file[User(c)].st = "absent" /\ metadata_file[User(c)].st = "absent"

(* the calls received for the tenant *)
CallsOf(u) == {d \in Calls : args[d].kind # "none" /\ args[d].user_id = u}

(* the texts of the records *)
Contents(records) == {records[i].content : i \in 1..Len(records)}

(* C23: a step of a request of one tenant (load, ingest, save, interrupted  *)
(* save or search) changes, for every other tenant, neither of its files,   *)
(* nor the store or the result of any of its requests, nor the answer of a  *)
(* store loaded from its files to any search; a request loads the files of  *)
(* its own tenant, and the records a tenant persists hold its own text only *)
C23_TenantsIsolated ==
    [][\A c \in Calls :
          pc'[c] # pc[c] =>
             LET a == args'[c].user_id IN
             /\ \A u \in Tenants \ {a} :
                   /\ index_file'[u] = index_file[u]
                   /\ metadata_file'[u] = metadata_file[u]
                   /\ \A d \in CallsOf(u) : rag'[d] = rag[d] /\ result'[d] = result[d]
                   /\ SameSearches(FAISS_AVAILABLE, embeddings,
                                   FreshStore(FAISS_AVAILABLE, index_file[u],
                                              metadata_file[u]),
                                   FreshStore(FAISS_AVAILABLE', index_file'[u],
                                              metadata_file'[u]))
             /\ Loads(c) => rag'[c] = FreshStore(FAISS_AVAILABLE, index_file[a],
                                                 metadata_file[a])
             /\ Contents(rag'[c].metadata) \subseteq Range(SplitText(TenantText(a)))
             /\ metadata_file'[a].st = "ok" =>
                   Contents(metadata_file'[a].data) \subseteq Range(SplitText(TenantText(a)))]_vars

(* both tenants have ingested and persisted, and a search of the first      *)
(* tenant, received after the ingest of the second, has returned            *)
C23_Witness ==
    \E i, j, c \in Calls :
        /\ i < j /\ j < c
        /\ IsIngest(i) /\ IsIngest(j) /\ IsSearch(c)
        /\ User(i) = "u1" /\ User(j) = "u2" /\ User(c) = "u1"
        /\ pc[i] = "returned" /\ pc[j] = "returned" /\ pc[c] = "returned"
        /\ Persisted("u1") # <<>> /\ Persisted("u2") # <<>>
        /\ Persisted("u1") # Persisted("u2")
        /\ \A n \in 1..Len(result[c]) : result[c][n].content \in Contents(Persisted("u1"))

(* C24: while the store works by keyword search (no vector index), the      *)
(* records persisted for a tenant carry no vector, and the persisted state  *)
(* of a tenant is one artifact, the ordered record list: there is no second *)
(* file beside it                                                           *)
C24_KeywordModeNoVector ==
    \A u \in Users :
        /\ ~FAISS_AVAILABLE =>
              \A i \in 1..Len(Persisted(u)) : Persisted(u)[i].vector = NoVector
        /\ index_file[u].st = "absent"

(* an ingest whose vectors are those of _text_to_vector (lines 144-151) *)
HashEmbedded(c) ==
    /\ IsIngest(c)
    /\ embeddings_array[c] # <<>>
    /\ provider[c] # "ok"

SentencesIn(chunk) == SubSeq(Split(chunk, SentenceSep), 1,
                             Len(Split(chunk, SentenceSep)) - 1)

(* C26: a chunk that holds two or more sentences is at most chunk_size      *)
(* characters long, separators included, and a chunk is closed only when    *)
(* the next sentence with its separator would not fit within chunk_size     *)
C26_ChunkWithinSize ==
    \A c \in Calls :
        Split_Done(c) /\ Len(args[c].texts) = 1 =>
            /\ \A i \in 1..Len(chunks[c]) :
                  Len(SentencesIn(chunks[c][i])) >= 2 => Len(chunks[c][i]) <= chunk_size
            /\ \A i \in 1..(Len(chunks[c]) - 1) :
                  Len(chunks[c][i]) + Len(SentencesIn(chunks[c][i + 1])[1])
                     + Len(SentenceSep) > chunk_size

(* C27: a store that maintains a vector index (loaded, ingested into, being *)
(* saved) holds as many vectors as records, and the vector at a position is *)
(* the embedding of the content of the record at that position              *)
C27_IndexAlignedWithMetadata ==
    \A c \in Calls :
        (pc[c] # "new" /\ UsesIndex(FAISS_AVAILABLE, rag[c])) =>
            /\ Len(rag[c].index.vecs) = Len(rag[c].metadata)
            /\ \A i \in 1..Len(rag[c].metadata) :
                  i <= Len(rag[c].index.vecs) =>
                     rag[c].index.vecs[i] = RecordVector(rag[c].metadata[i].content)

(* the score of the record at position j of the store of search c: its      *)
(* squared distance to the query vector, or its keyword score               *)
OwnScore(c, j) ==
    IF UsesIndex(FAISS_AVAILABLE, rag[c])
    THEN L2(RecordVector(rag[c].metadata[j].content),
            TextToVector(args[c].query, rag[c].index.d))
    ELSE KeywordScore(args[c].query, rag[c].metadata[j].content)

(* C28: the results of a search on a store with records are distinct stored *)
(* records, each with its own score: the result positions map one-to-one to *)
(* positions of the record list such that every result has the content and  *)
(* source of its record and the score computed for that record              *)
C28_DistinctRecordsOwnScores ==
    \A c \in Calls :
        (IsSearch(c) /\ pc[c] = "returned" /\ rag[c].metadata # <<>>) =>
            \E f \in [1..Len(result[c]) -> 1..Len(rag[c].metadata)] :
                /\ \A i, j \in 1..Len(result[c]) : i # j => f[i] # f[j]
                /\ \A i \in 1..Len(result[c]) :
                      /\ result[c][i].content = rag[c].metadata[f[i]].content
                      /\ result[c][i].source = rag[c].metadata[f[i]].source
                      /\ result[c][i].score = OwnScore(c, f[i])

(* C29: the step of an ingest that finds no chunk to add raises nothing and *)
(* leaves the store of the call, records and index, as it was loaded, with  *)
(* the vector index and without; the ingest then returns the empty id list  *)
(* and the records persisted for the tenant are those it loaded             *)
C29_ZeroChunkIngest ==
    [][\A c \in Calls :
          /\ (/\ IsIngest(c) /\ pc[c] = "loaded" /\ pc'[c] \in {"save", "error"}
              /\ chunks'[c] = <<>>)
                => /\ pc'[c] = "save" /\ exc'[c] = "none"
                   /\ rag'[c] = rag[c]
                   /\ vector_ids'[c] = <<>>
          /\ (IsIngest(c) /\ JustReturned(c) /\ chunks[c] = <<>>)
                => /\ result'[c] = <<>>
                   /\ Persisted(User(c))' = rag[c].metadata]_vars

(* a keyword search on a store with records that has returned *)
KeywordSearched(c) ==
    /\ IsSearch(c) /\ pc[c] = "returned"
    /\ rag[c].metadata # <<>> /\ ~UsesIndex(FAISS_AVAILABLE, rag[c])

(* C30: the results of a keyword search are records at distinct positions   *)
(* of the record list, and of two results with equal score the one at the   *)
(* earlier position comes first; when no record contains a query word the   *)
(* result is the first min(k, size) records, in list order, with score 0    *)
C30_TiesInInsertionOrder ==
    \A c \in Calls :
        KeywordSearched(c) =>
            LET res == result[c]
                md == rag[c].metadata
                Score(j) == KeywordScore(args[c].query, md[j].content)
            IN /\ \E f \in [1..Len(res) -> 1..Len(md)] :
                     /\ \A i \in 1..Len(res) :
                           /\ res[i].content = md[f[i]].content
                           /\ res[i].source = md[f[i]].source
                           /\ res[i].score = Score(f[i])
                     /\ \A i, j \in 1..Len(res) :
                           (i < j /\ res[i].score = res[j].score) => f[i] < f[j]
               /\ (\A j \in 1..Len(md) : Score(j) = 0) =>
                     res = [r \in 1..Min(args[c].k, Len(md)) |->
                               [content |-> md[r].content, source |-> md[r].source,
                                score |-> 0]]

(* two different records with the same positive score were returned, the   *)
(* one ingested first in front                                              *)
C30_Witness ==
    \E c \in Calls :
        /\ KeywordSearched(c) /\ Len(result[c]) = 2
        /\ result[c][1].score = 1 /\ result[c][2].score = 1
        /\ result[c][1].content # result[c][2].content
        /\ result[c][1].content = rag[c].metadata[1].content

=============================================================================
